---------------------------- MODULE Spec2Model ----------------------------
(***************************************************************************)
(* Food expenses tracker (src/food_tracker.py): one SQLite table           *)
(* expenses(id, date, meal, amount) behind a Streamlit script with a       *)
(* Daily Entry page (save / delete / clear per date) and a Monthly         *)
(* Summary page (range query, sum by day, sum by category).                *)
(*                                                                         *)
(* Text (meal labels, ISO dates, typed amounts) is modelled as sequences   *)
(* of one-character strings so that LIKE, lower(), substring search,       *)
(* f-string concatenation, float() and string comparison are computed.     *)
(* Amounts are whole rupees (integers): binary rounding of REAL is not     *)
(* modelled.                                                               *)
(***************************************************************************)
EXTENDS Integers, Sequences, FiniteSets, TLC

\* ------------------------------------------------------------------ bounds
\* dates the user can pick: BaseDate .. BaseDate + MaxDay days
MaxDay == 2
\* ids the table hands out (AUTOINCREMENT never reuses one): 1 .. MaxId
MaxId == 2
\* rows a database file written before this session may already hold
MaxInitRows == 1

\* ------------------------------------------------------- program constants
\* feedback thresholds of the Daily Entry page
OverBudget == 220
SavedBelow == 150
\* st.text_input(..., max_chars=20) of the Other slot's note
NoteMaxChars == 20

\* --------------------------------------------------------------- text
UpperChars == <<"A","B","C","D","E","F","G","H","I","J","K","L","M",
                "N","O","P","Q","R","S","T","U","V","W","X","Y","Z">>
LowerChars == <<"a","b","c","d","e","f","g","h","i","j","k","l","m",
                "n","o","p","q","r","s","t","u","v","w","x","y","z">>
DigitChars == <<"0","1","2","3","4","5","6","7","8","9">>

\* the lower-case letter of each upper-case one
LowerOf == [c \in {UpperChars[i] : i \in 1..26} |->
              LowerChars[CHOOSE i \in 1..26 : UpperChars[i] = c]]

\* str.lower() on one character
LowerChar(c) == IF c \in DOMAIN LowerOf THEN LowerOf[c] ELSE c

\* str.lower()
Lower(s) == [i \in 1..Len(s) |-> LowerChar(s[i])]

\* Python's  w in s  on strings
Contains(s, w) ==
    \E i \in 0..(Len(s) - Len(w)) : SubSeq(s, i + 1, i + Len(w)) = w

\* SQLite's  s LIKE 'p%'  (LIKE ignores ASCII case)
LikePrefix(s, p) ==
    /\ Len(s) >= Len(p)
    /\ Lower(SubSeq(s, 1, Len(p))) = Lower(p)

\* code point order of the characters an ISO date holds ('-' sorts before a digit)
CharCode(c) ==
    IF c = "-" THEN 45
    ELSE 48 + (CHOOSE n \in 0..9 : DigitChars[n + 1] = c)

\* SQLite's BINARY collation on TEXT: s <= t
RECURSIVE TextLeq(_, _)
TextLeq(s, t) ==
    IF s = <<>> THEN TRUE
    ELSE IF t = <<>> THEN FALSE
    ELSE IF CharCode(Head(s)) # CharCode(Head(t))
         THEN CharCode(Head(s)) < CharCode(Head(t))
         ELSE TextLeq(Tail(s), Tail(t))

\* the meal labels and keywords of the source
Breakfast == <<"B","r","e","a","k","f","a","s","t">>
Lunch     == <<"L","u","n","c","h">>
Dinner    == <<"D","i","n","n","e","r">>
Other     == <<"O","t","h","e","r">>
Morning   == <<"M","o","r","n","i","n","g">>
Afternoon == <<"A","f","t","e","r","n","o","o","n">>
Evening   == <<"E","v","e","n","i","n","g">>
kw_breakfast == <<"b","r","e","a","k","f","a","s","t">>
kw_morning   == <<"m","o","r","n","i","n","g">>
kw_lunch     == <<"l","u","n","c","h">>
kw_afternoon == <<"a","f","t","e","r","n","o","o","n">>
kw_dinner    == <<"d","i","n","n","e","r">>
kw_evening   == <<"e","v","e","n","i","n","g">>

\* ------------------------------------------------------------- dates
IsLeap(y) == (y % 4 = 0 /\ y % 100 # 0) \/ y % 400 = 0

DaysInMonth(y, m) ==
    IF m = 2 THEN (IF IsLeap(y) THEN 29 ELSE 28)
    ELSE IF m \in {4, 6, 9, 11} THEN 30 ELSE 31

\* date + timedelta(days=1)
NextDay(dt) ==
    IF dt.d < DaysInMonth(dt.y, dt.m) THEN [dt EXCEPT !.d = dt.d + 1]
    ELSE IF dt.m < 12 THEN [y |-> dt.y, m |-> dt.m + 1, d |-> 1]
    ELSE [y |-> dt.y + 1, m |-> 1, d |-> 1]

\* date - timedelta(days=1)
PrevDay(dt) ==
    IF dt.d > 1 THEN [dt EXCEPT !.d = dt.d - 1]
    ELSE IF dt.m > 1
         THEN [y |-> dt.y, m |-> dt.m - 1, d |-> DaysInMonth(dt.y, dt.m - 1)]
         ELSE [y |-> dt.y - 1, m |-> 12, d |-> 31]

\* date + relativedelta(months=1): the day is clamped to the target month
AddMonth(dt) ==
    LET y2 == IF dt.m = 12 THEN dt.y + 1 ELSE dt.y
        m2 == IF dt.m = 12 THEN 1 ELSE dt.m + 1
    IN  [y |-> y2, m |-> m2,
         d |-> IF dt.d > DaysInMonth(y2, m2) THEN DaysInMonth(y2, m2) ELSE dt.d]

RECURSIVE AddDays(_, _)
AddDays(dt, n) == IF n = 0 THEN dt ELSE AddDays(NextDay(dt), n - 1)

BaseDate == [y |-> 2024, m |-> 12, d |-> 31]

\* the values st.date_input can hand to the script
Dates == {AddDays(BaseDate, n) : n \in 0..MaxDay}

\* zero-padded decimal text of n, w characters wide
RECURSIVE Pad(_, _)
Pad(n, w) == IF w = 0 THEN <<>> ELSE Append(Pad(n \div 10, w - 1), DigitChars[(n % 10) + 1])

\* sqlite3's date adapter: date.isoformat(), 'YYYY-MM-DD'
IsoFormat(dt) == Pad(dt.y, 4) \o <<"-">> \o Pad(dt.m, 2) \o <<"-">> \o Pad(dt.d, 2)


\* decimal value of a string of digits
RECURSIVE DigitsValue(_)
DigitsValue(s) ==
    IF s = <<>> THEN 0
    ELSE 10 * DigitsValue(SubSeq(s, 1, Len(s) - 1))
         + (CHOOSE n \in 0..9 : DigitChars[n + 1] = s[Len(s)])

IsDigits(s) == s # <<>> /\ \A i \in 1..Len(s) : \E n \in 1..10 : DigitChars[n] = s[i]

\* pd.to_datetime on the stored text
to_datetime(s) ==
    [y |-> DigitsValue(SubSeq(s, 1, 4)),
     m |-> DigitsValue(SubSeq(s, 6, 7)),
     d |-> DigitsValue(SubSeq(s, 9, 10))]

\* ------------------------------------------------------- typed amounts
\* str.strip() of blanks
RECURSIVE Strip(_)
Strip(s) ==
    IF s = <<>> THEN s
    ELSE IF Head(s) = " " THEN Strip(Tail(s))
    ELSE IF s[Len(s)] = " " THEN Strip(SubSeq(s, 1, Len(s) - 1))
    ELSE s

\* float(s) on whole numbers with an optional sign: <<TRUE, value>>, or
\* <<FALSE, 0>> where Python raises ValueError
float(s) ==
    LET t == Strip(s)
        signed == t # <<>> /\ Head(t) \in {"-", "+"}
        body == IF signed THEN Tail(t) ELSE t
    IN  IF IsDigits(body)
        THEN <<TRUE, IF signed /\ Head(t) = "-" THEN 0 - DigitsValue(body) ELSE DigitsValue(body)>>
        ELSE <<FALSE, 0>>

\* parsed_breakfast / parsed_lunch / parsed_dinner / parsed_other
parsed_amount(input) ==
    IF Strip(input) # <<>>
    THEN (IF float(input)[1] THEN float(input)[2] ELSE 0)
    ELSE 0

\* -------------------------------------------------------- the table
\* a row of expenses: id, date (ISO text), meal (text), amount
None == <<>>
Some(a) == <<a>>

Slots == {Breakfast, Lunch, Dinner, Other}
LegacyNames == {Morning, Afternoon, Evening}

\* WHERE date = ? AND (meal LIKE 'Other%' OR meal = 'Other')
OtherRows(t, iso) ==
    {r \in t : r.date = iso /\ (LikePrefix(r.meal, Other) \/ r.meal = Other)}

\* WHERE date = ? AND meal = ?
MealRows(t, iso, meal) == {r \in t : r.date = iso /\ r.meal = meal}

MaxIdRow(rows) == CHOOSE r \in rows : \A q \in rows : q.id <= r.id
\* a scan of the table without ORDER BY visits rows in rowid order
MinIdRow(rows) == CHOOSE r \in rows : \A q \in rows : r.id <= q.id

\* the old_names dict of get_existing_amount and delete_entry
old_names_read == [k \in LegacyNames |->
                     IF k = Morning THEN Breakfast
                     ELSE IF k = Afternoon THEN Lunch ELSE Dinner]

\* the old_names dict of save_entry
old_names_save == [k \in {Breakfast, Lunch, Dinner} |->
                     IF k = Breakfast THEN Morning
                     ELSE IF k = Lunch THEN Afternoon ELSE Evening]

get_existing_amount(t, selected_date, meal_name) ==
    LET iso == IsoFormat(selected_date)
    IN  IF meal_name = Other
        THEN LET df == OtherRows(t, iso)
             IN  IF df # {} THEN Some(MaxIdRow(df).amount) ELSE None
        ELSE LET df1 == MealRows(t, iso, meal_name)
                 df  == IF df1 = {} /\ meal_name \in DOMAIN old_names_read
                        THEN MealRows(t, iso, old_names_read[meal_name])
                        ELSE df1
             IN  IF df # {} THEN Some(MinIdRow(df).amount) ELSE None

\* bug variant: the meal condition dropped from delete_entry's WHERE
delete_entry_rows_whole_date(t, selected_date, meal_name) ==
    {r \in t : r.date = IsoFormat(selected_date)}

\* the rows delete_entry removes
delete_entry_rows(t, selected_date, meal_name) ==
    LET iso == IsoFormat(selected_date)
    IN  IF meal_name = Other
        THEN OtherRows(t, iso)
        ELSE LET name == IF meal_name \in DOMAIN old_names_read
                         THEN old_names_read[meal_name] ELSE meal_name
             IN  MealRows(t, iso, name)

delete_entry(t, selected_date, meal_name) ==
    t \ delete_entry_rows(t, selected_date, meal_name)

\* meal_name after save_entry's loop over old_names.items()
save_meal_name(meal_name) ==
    IF meal_name # Other /\ \E k \in DOMAIN old_names_save : old_names_save[k] = meal_name
    THEN CHOOSE k \in DOMAIN old_names_save : old_names_save[k] = meal_name
    ELSE meal_name

\* bug variant: the Other slot deleted by exact label, like the other slots
save_entry_deleted_exact(t, selected_date, meal_name) ==
    MealRows(t, IsoFormat(selected_date), save_meal_name(meal_name))

\* the rows save_entry's DELETE removes
save_entry_deleted(t, selected_date, meal_name) ==
    LET iso == IsoFormat(selected_date)
    IN  IF meal_name = Other
        THEN OtherRows(t, iso)
        ELSE MealRows(t, iso, save_meal_name(meal_name))

\* f"{meal_name}: {desc}" if desc and meal_name == "Other" else meal_name
full_meal(meal_name, desc) ==
    IF desc # <<>> /\ meal_name = Other
    THEN meal_name \o <<":", " ">> \o desc
    ELSE meal_name

\* bug variant: "if amount:" in place of "if amount > 0:"
save_entry_inserts_nonzero(amount) == amount # 0

\* whether save_entry inserts
save_entry_inserts(amount) == amount > 0

\* bug variant: a plain INSERT, the DELETE forgotten
save_entry_insert_only(t, nid, selected_date, meal_name, amount, desc) ==
    IF amount > 0
    THEN t \cup {[id |-> nid,
                  date |-> IsoFormat(selected_date),
                  meal |-> full_meal(save_meal_name(meal_name), desc),
                  amount |-> amount]}
    ELSE t

\* the table after save_entry; nid is the id AUTOINCREMENT hands out next
save_entry(t, nid, selected_date, meal_name, amount, desc) ==
    LET kept == t \ save_entry_deleted(t, selected_date, meal_name)
    IN  IF save_entry_inserts(amount)
        THEN kept \cup {[id |-> nid,
                         date |-> IsoFormat(selected_date),
                         meal |-> full_meal(save_meal_name(meal_name), desc),
                         amount |-> amount]}
        ELSE kept

\* DELETE FROM expenses WHERE date = ?
clear_today(t, selected_date) == {r \in t : r.date # IsoFormat(selected_date)}

RECURSIVE SumAmount(_)
SumAmount(rows) ==
    IF rows = {} THEN 0
    ELSE LET r == CHOOSE x \in rows : TRUE
         IN  r.amount + SumAmount(rows \ {r})

\* SELECT amount FROM expenses WHERE date = ?
df_today(t, selected_date) == {r \in t : r.date = IsoFormat(selected_date)}

daily_total(t, selected_date) ==
    IF df_today(t, selected_date) # {} THEN SumAmount(df_today(t, selected_date)) ELSE 0

\* bug variant: ">=" in place of ">" on the over-budget threshold
feedback_inclusive(total) ==
    IF total >= OverBudget THEN <<"over">>
    ELSE IF total < SavedBelow THEN <<"saved">>
    ELSE <<"on track">>

\* the messages the if / elif / else on daily_total shows, in order
feedback(total) ==
    IF total > OverBudget THEN <<"over">>
    ELSE IF total < SavedBelow THEN <<"saved">>
    ELSE <<"on track">>


\* ------------------------------------------------------ Monthly Summary
\* bug variant: the dinner branch tested before the lunch branch
categorize_meal_dinner_first(meal) ==
    LET meal_lower == Lower(meal)
    IN  IF Contains(meal_lower, kw_breakfast) \/ Contains(meal_lower, kw_morning)
        THEN Breakfast
        ELSE IF Contains(meal_lower, kw_dinner) \/ Contains(meal_lower, kw_evening)
        THEN Dinner
        ELSE IF Contains(meal_lower, kw_lunch) \/ Contains(meal_lower, kw_afternoon)
        THEN Lunch
        ELSE Other

categorize_meal(meal) ==
    LET meal_lower == Lower(meal)
    IN  IF Contains(meal_lower, kw_breakfast) \/ Contains(meal_lower, kw_morning)
        THEN Breakfast
        ELSE IF Contains(meal_lower, kw_lunch) \/ Contains(meal_lower, kw_afternoon)
        THEN Lunch
        ELSE IF Contains(meal_lower, kw_dinner) \/ Contains(meal_lower, kw_evening)
        THEN Dinner
        ELSE Other

\* bug variant: replace(day=1) forgotten
month_start_as_picked(selected_month) == selected_month

month_start(selected_month) == [selected_month EXCEPT !.d = 1]
next_month(selected_month) == AddMonth(month_start(selected_month))
month_end(selected_month) == PrevDay(next_month(selected_month))

\* SELECT date, meal, amount FROM expenses WHERE date BETWEEN ? AND ?
df_month(t, selected_month) ==
    {r \in t : /\ TextLeq(IsoFormat(month_start(selected_month)), r.date)
               /\ TextLeq(r.date, IsoFormat(month_end(selected_month)))}

\* groupby('date')['amount'].sum(), the date parsed and printed back
daily_totals_raw(df) ==
    {[Date |-> IsoFormat(k), Total |-> SumAmount({r \in df : to_datetime(r.date) = k})] :
        k \in {to_datetime(r.date) : r \in df}}

monthly_total(df) == SumAmount(df)

\* groupby('meal_group')['amount'].sum(); sort_values only orders these records
meal_breakdown_raw_grouped(df) ==
    {[Meal |-> g, Total |-> SumAmount({r \in df : categorize_meal(r.meal) = g})] :
        g \in {categorize_meal(r.meal) : r \in df}}

\* ------------------------------------------------------------- state
VARIABLES
    table,     \* the rows of expenses
    next_id,   \* the id AUTOINCREMENT gives the next INSERT
    last       \* the operation the last run of the script performed, and its page

vars == <<table, next_id, last>>

\* the page the last run rendered
Monthly == last.op \in {"summary", "ClearAll"}

\* the Daily Entry page as rendered for selected_date
RenderDaily(t, selected_date) ==
    [page |-> "Daily Entry",
     date |-> selected_date,
     shown |-> [m \in Slots |-> get_existing_amount(t, selected_date, m)],
     daily_total |-> daily_total(t, selected_date),
     feedback |-> feedback(daily_total(t, selected_date))]

\* the Monthly Summary page as rendered for selected_month
RenderMonthly(t, selected_month) ==
    LET df == df_month(t, selected_month)
    IN  [page |-> "Monthly Summary",
         date |-> selected_month,
         has_data |-> df # {},
         df_month |-> {[id |-> r.id, date |-> r.date, meal |-> r.meal, amount |-> r.amount,
                        meal_group |-> categorize_meal(r.meal)] : r \in df},
         daily_totals |-> daily_totals_raw(df),
         monthly_total |-> monthly_total(df),
         meal_breakdown |-> meal_breakdown_raw_grouped(df)]

Op(op, d, meal, amount, deleted) ==
    [op |-> op, date |-> d, meal |-> meal, amount |-> amount, deleted |-> deleted]

\* what the user can type into an amount box
AmountInputs == { <<>>, <<"a","b","c">>, <<"0">>, <<"-","5">>, <<"1","5","0">> }
\* what the user can type into the Other slot's note
Notes == { <<>>, <<"D","i","n","n","e","r"," ","l","u","n","c","h">> }

\* the script's first run: the Daily Entry page on today's date, table empty
Init ==
    /\ table = {}
    /\ next_id = 1
    /\ \E today \in Dates : last = Op("open", today, <<>>, 0, 0)

\* labels and amounts a database file written earlier may hold: the legacy
\* names, and current labels as this version writes them
InitLabels == LegacyNames \cup {Breakfast, full_meal(Other, <<"s","n","a","c","k">>)}
InitAmounts == {70}

\* the first run on a database file that already holds rows
InitAny ==
    /\ \E k \in 0..MaxInitRows :
         /\ \E f \in [1..k -> [date : {IsoFormat(d) : d \in Dates},
                               meal : InitLabels, amount : InitAmounts]] :
              table = {[id |-> i, date |-> f[i].date, meal |-> f[i].meal,
                        amount |-> f[i].amount] : i \in 1..k}
         /\ next_id = k + 1
    /\ \E today \in Dates : last = Op("open", today, <<>>, 0, 0)

\* ------------------------------------------------- the session's steps
\* The script runs top to bottom on every click.  last.op is "open" when the
\* Daily Entry page stands rendered for last.date and "summary" when the Monthly
\* Summary page does; any other value is a handler that has written the table
\* and called st.rerun().
DailyShown == last.op = "open"
SummaryShown == last.op = "summary"

SaveEntryStep(op, meal_name, amount, desc) ==
    /\ save_entry_inserts(amount) => next_id <= MaxId
    /\ table' = save_entry(table, next_id, last.date, meal_name, amount, desc)
    /\ next_id' = IF save_entry_inserts(amount) THEN next_id + 1 ELSE next_id
    /\ last' = Op(op, last.date, meal_name, amount,
                  Cardinality(save_entry_deleted(table, last.date, meal_name)))

DeleteEntryStep(op, meal_name) ==
    /\ table' = delete_entry(table, last.date, meal_name)
    /\ next_id' = next_id
    /\ last' = Op(op, last.date, meal_name, 0,
                  Cardinality(delete_entry_rows(table, last.date, meal_name)))

\* the Save button of a slot, shown when the slot has no entry
SaveClick(m) ==
    /\ DailyShown
    /\ get_existing_amount(table, last.date, m) = None
    /\ \E input \in AmountInputs, desc \in (IF m = Other THEN Notes ELSE {<<>>}) :
         /\ Len(desc) <= NoteMaxChars
         /\ SaveEntryStep("Save", m, parsed_amount(input), desc)

\* the Delete button of a slot, shown when the slot has an entry
DeleteClick(m) ==
    /\ DailyShown
    /\ get_existing_amount(table, last.date, m) # None
    /\ DeleteEntryStep("Delete", m)

\* Clear All Today's Entries
ClearTodayClick ==
    /\ DailyShown
    /\ table' = clear_today(table, last.date)
    /\ next_id' = next_id
    /\ last' = Op("ClearToday", last.date, <<>>, 0, Cardinality(df_today(table, last.date)))

\* Clear All Data, on the Monthly Summary page
ClearAllDataClick ==
    /\ SummaryShown
    /\ table' = {}
    /\ next_id' = next_id
    /\ last' = Op("ClearAll", last.date, <<>>, 0, Cardinality(table))

\* st.rerun(): the script runs again and renders the same page for the same date
Rerun ==
    /\ ~DailyShown /\ ~SummaryShown
    /\ UNCHANGED <<table, next_id>>
    /\ last' = Op(IF Monthly THEN "summary" ELSE "open", last.date, <<>>, 0, 0)

\* picking a date on the Daily Entry page
OpenDaily(d) ==
    /\ DailyShown \/ SummaryShown
    /\ UNCHANGED <<table, next_id>>
    /\ last' = Op("open", d, <<>>, 0, 0)

\* picking a month on the Monthly Summary page
OpenMonthly(selected_month) ==
    /\ DailyShown \/ SummaryShown
    /\ UNCHANGED <<table, next_id>>
    /\ last' = Op("summary", selected_month, <<>>, 0, 0)

Next ==
    \/ \E m \in Slots : SaveClick(m)
    \/ \E m \in Slots : DeleteClick(m)
    \/ ClearTodayClick
    \/ ClearAllDataClick
    \/ Rerun
    \/ \E d \in Dates : OpenDaily(d)
    \/ \E d \in Dates : OpenMonthly(d)

\* the session of one user on a fresh database
Spec == Init /\ [][Next]_vars

\* the session of one user on a database file that already holds rows
SpecLegacy == InitAny /\ [][Next]_vars

\* save_entry and delete_entry called with the page's arguments whatever the
\* table holds for the slot
MealArgs == Slots
AmountArgs == {0, 150}

CallSaveEntry(meal_name) ==
    /\ DailyShown
    /\ \E amount \in AmountArgs, desc \in (IF meal_name = Other THEN Notes ELSE {<<>>}) :
         SaveEntryStep("save_entry", meal_name, amount, desc)

CallDeleteEntry(meal_name) ==
    /\ DailyShown
    /\ DeleteEntryStep("delete_entry", meal_name)

NextFn ==
    \/ \E m \in MealArgs : CallSaveEntry(m)
    \/ \E m \in MealArgs : CallDeleteEntry(m)
    \/ ClearTodayClick
    \/ ClearAllDataClick
    \/ Rerun
    \/ \E d \in Dates : OpenDaily(d)
    \/ \E d \in Dates : OpenMonthly(d)

SpecFn == InitAny /\ [][NextFn]_vars

SpecFnFresh == Init /\ [][NextFn]_vars


\* ------------------------------------------------------------ properties
\* a label belongs to slot m: Other holds every label beginning with 'Other'
InSlot(label, m) ==
    IF m = Other
    THEN Len(label) >= Len(Other) /\ SubSeq(label, 1, Len(Other)) = Other
    ELSE label = m

\* the rows of date d (a date value) stored under slot m
SlotRows(t, d, m) == {r \in t : r.date = IsoFormat(d) /\ InSlot(r.meal, m)}

OnlyCurrentLabels(t) == \A r \in t : \E m \in Slots : InSlot(r.meal, m)

\* the row the last INSERT wrote, if it is still there
LastInserted == {r \in table : r.id = next_id - 1}

\* C1: starting from an empty table, after any sequence of save_entry,
\* delete_entry, Clear All Today's Entries and Clear All Data, every row lies in
\* one of the four slots and no two rows share a date and a slot.
C1_OneRowPerDateAndSlot ==
    \A r \in table :
        /\ \E m \in Slots : InSlot(r.meal, m)
        /\ \A q \in table, m \in Slots :
              (q.date = r.date /\ InSlot(r.meal, m) /\ InSlot(q.meal, m)) => q = r

\* C1 witness: save_entry has just replaced the entry of a slot
C1_Witness ==
    /\ last.op = "save_entry"
    /\ last.meal \in Slots
    /\ last.deleted = 1
    /\ SlotRows(table, last.date, last.meal) = LastInserted
    /\ LastInserted # {}

\* C2: on a table holding only current labels, save_entry(m, a) with a > 0 for a
\* slot m on date d leaves exactly one row for (d, m), that row's amount is a
\* whatever was stored before, and get_existing_amount(m) on d then returns a.
C2_SaveIsInsertOrReplace ==
    [][ (/\ last'.op = "save_entry"
         /\ last'.meal \in Slots
         /\ last'.amount > 0
         /\ OnlyCurrentLabels(table))
        => /\ Cardinality(SlotRows(table', last'.date, last'.meal)) = 1
           /\ \A r \in SlotRows(table', last'.date, last'.meal) : r.amount = last'.amount
           /\ get_existing_amount(table', last'.date, last'.meal) = Some(last'.amount) ]_vars

\* C2 witness: save_entry stored 150 over an entry that was there before
C2_Witness ==
    /\ last.op = "save_entry"
    /\ last.meal \in Slots
    /\ last.amount = 150
    /\ last.deleted >= 1
    /\ OnlyCurrentLabels(table)
    /\ get_existing_amount(table, last.date, last.meal) = Some(150)


\* the page the last run of the script rendered
View == IF Monthly THEN RenderMonthly(table, last.date) ELSE RenderDaily(table, last.date)

\* the rows whose date text lies in the calendar month of date value sel
InCalendarMonth(t, sel) ==
    {r \in t : SubSeq(r.date, 1, 7) = SubSeq(IsoFormat(sel), 1, 7)}

\* the sum of the Total column of a set of records
RECURSIVE SumTotal(_)
SumTotal(recs) ==
    IF recs = {} THEN 0
    ELSE LET x == CHOOSE x \in recs : TRUE
         IN  x.Total + SumTotal(recs \ {x})

\* C3: the Monthly Summary counts exactly the rows dated in the calendar month
\* of the picked date, whichever day was picked; each such row is in exactly one
\* of the four categories; and the category totals, the daily totals and the
\* monthly total all sum to the same amount.
C3_MonthlySummary ==
    Monthly =>
        LET v == View
            in_month == InCalendarMonth(table, last.date)
        IN  /\ {r.id : r \in v.df_month} = {r.id : r \in in_month}
            /\ \A r \in v.df_month :
                  /\ r.meal_group \in Slots
                  /\ Cardinality({g \in v.meal_breakdown : g.Meal = r.meal_group}) = 1
                  /\ Cardinality({g \in v.daily_totals : g.Date = r.date}) = 1
            /\ \A g \in v.meal_breakdown :
                  g.Total = SumAmount({r \in v.df_month : r.meal_group = g.Meal})
            /\ \A g \in v.daily_totals :
                  g.Total = SumAmount({r \in v.df_month : r.date = g.Date})
            /\ SumTotal(v.meal_breakdown) = v.monthly_total
            /\ SumTotal(v.daily_totals) = v.monthly_total
            /\ v.monthly_total = SumAmount(in_month)

\* C3 witness: a summary picked on a day other than the 1st, counting a row of
\* another day of that month, with a row of another month in the table
C3_Witness ==
    /\ last.op = "summary"
    /\ last.date.d # 1
    /\ \E r \in View.df_month : r.date # IsoFormat(last.date)
    /\ \E r \in table : r \notin InCalendarMonth(table, last.date)

\* a label holds one of two keywords, ignoring case
HasKeyword(label, kw1, kw2) ==
    \E kw \in {kw1, kw2} : \E i \in 1..Len(label) :
        /\ i + Len(kw) - 1 <= Len(label)
        /\ Lower(SubSeq(label, i, i + Len(kw) - 1)) = kw

IsBreakfastLabel(label) == HasKeyword(label, kw_breakfast, kw_morning)
IsLunchLabel(label) == HasKeyword(label, kw_lunch, kw_afternoon)
IsDinnerLabel(label) == HasKeyword(label, kw_dinner, kw_evening)

\* C4: categorize_meal sends Morning to Breakfast, Afternoon to Lunch, Evening to
\* Dinner, each of Breakfast, Lunch, Dinner to itself, a label holding none of the
\* six keywords (in any case) to Other, and a label holding keywords of several
\* categories to the first of Breakfast, Lunch, Dinner it holds a keyword of.
C4_CategorizeMeal ==
    Monthly =>
        \A r \in View.df_month :
            LET b == IsBreakfastLabel(r.meal)
                l == IsLunchLabel(r.meal)
                d == IsDinnerLabel(r.meal)
            IN  /\ r.meal = Morning => r.meal_group = Breakfast
                /\ r.meal = Afternoon => r.meal_group = Lunch
                /\ r.meal = Evening => r.meal_group = Dinner
                /\ r.meal \in {Breakfast, Lunch, Dinner} => r.meal_group = r.meal
                /\ (~b /\ ~l /\ ~d) => r.meal_group = Other
                /\ b => r.meal_group = Breakfast
                /\ (~b /\ l) => r.meal_group = Lunch
                /\ (~b /\ ~l /\ d) => r.meal_group = Dinner

\* C4 witness: a summary over a legacy label and a label holding both a dinner
\* and a lunch keyword, counted as Lunch
C4_Witness ==
    /\ last.op = "summary"
    /\ LET v == View
       IN  /\ \E r \in v.df_month : r.meal \in LegacyNames
           /\ \E r \in v.df_month :
                 IsLunchLabel(r.meal) /\ IsDinnerLabel(r.meal) /\ r.meal_group = Lunch

\* the legacy label of a current one
LegacyOf(m) == IF m = Breakfast THEN Morning ELSE IF m = Lunch THEN Afternoon ELSE Evening

\* C5: on the Daily Entry page, a slot whose date holds a row under the legacy
\* label and none under the current label shows the legacy row's amount.
C5_LegacyRowIsShown ==
    ~Monthly =>
        \A m \in {Breakfast, Lunch, Dinner} :
            (/\ MealRows(table, IsoFormat(last.date), LegacyOf(m)) # {}
             /\ MealRows(table, IsoFormat(last.date), m) = {})
            => View.shown[m] \in
                 {Some(r.amount) : r \in MealRows(table, IsoFormat(last.date), LegacyOf(m))}

\* C6: after save_entry for Breakfast, Lunch or Dinner on a date, no row of that
\* date remains under the legacy label and at most one is under the current label.
C6_SaveRemovesLegacyRow ==
    (last.op = "Save" /\ last.meal \in {Breakfast, Lunch, Dinner}) =>
        /\ MealRows(table, IsoFormat(last.date), LegacyOf(last.meal)) = {}
        /\ Cardinality(MealRows(table, IsoFormat(last.date), last.meal)) <= 1


\* the rows of t outside date d's slot m
OutsideSlot(t, d, m) == {r \in t : r.date # IsoFormat(d) \/ ~InSlot(r.meal, m)}

\* C7: save_entry(m) and delete_entry(m) on date d leave every row of another
\* date, and every row of d in another slot, as it was; Clear All Today's
\* Entries on d removes every row dated d and leaves every other row as it was.
C7_MutationsAreLocal ==
    [][ /\ (last'.op \in {"save_entry", "delete_entry"} /\ last'.meal \in Slots)
            => OutsideSlot(table', last'.date, last'.meal)
                 = OutsideSlot(table, last'.date, last'.meal)
        /\ last'.op = "ClearToday"
            => table' = {r \in table : r.date # IsoFormat(last'.date)} ]_vars

\* C7 witness: delete_entry removed a slot's row and a row of another slot of
\* the same date is still there
C7_Witness ==
    /\ last.op = "delete_entry"
    /\ last.meal \in Slots
    /\ last.deleted = 1
    /\ SlotRows(table, last.date, last.meal) = {}
    /\ \E r \in table : r.date = IsoFormat(last.date)

\* C8: the Daily Total shown for the picked date is the sum of the amounts of
\* the rows stored for that date (0 when there are none), and exactly one
\* message is shown: over budget iff total > 220, saved iff total < 150, on
\* track iff 150 <= total <= 220.
C8_DailyTotalAndFeedback ==
    ~Monthly =>
        LET shown_total == daily_total(table, last.date)
            shown == feedback(shown_total)
            total == SumAmount({r \in table : to_datetime(r.date) = last.date})
            shows(msg) == \E i \in 1..Len(shown) : shown[i] = msg
        IN  /\ shown_total = total
            /\ Len(shown) = 1
            /\ shows("over") <=> total > 220
            /\ shows("saved") <=> total < 150
            /\ shows("on track") <=> (150 <= total /\ total <= 220)

\* C8 witness: a day whose two entries, 70 and 150, add up to exactly 220
C8_Witness ==
    /\ last.op = "Save"
    /\ Cardinality(df_today(table, last.date)) = 2
    /\ daily_total(table, last.date) = 220

\* C9: no stored row has an amount <= 0: an empty or non-numeric input is parsed
\* as 0, and Save with a parsed amount <= 0 leaves the slot without a row.
C9_OnlyPositiveAmounts ==
    /\ \A r \in table : r.amount > 0
    /\ parsed_amount(<<>>) = 0
    /\ parsed_amount(<<"a","b","c">>) = 0
    /\ parsed_amount(<<"0">>) = 0
    /\ parsed_amount(<<"-","5">>) < 0
    /\ (last.op = "Save" /\ last.amount <= 0)
          => SlotRows(table, last.date, last.meal) = {}

\* C9 witness: Save pressed with a negative amount on a date that holds a row
C9_Witness ==
    /\ last.op = "Save"
    /\ last.amount < 0
    /\ df_today(table, last.date) # {}

\* C10: every row written through a slot is counted by the Monthly Summary
\* under that slot's category, whatever note was typed, so that no date has two
\* rows in one report category.
C10_SlotIsCategory ==
    /\ (last.op = "Save" /\ last.amount > 0)
          => \A r \in LastInserted : categorize_meal(r.meal) = last.meal
    /\ \A r \in table, q \in table :
          (r.date = q.date /\ categorize_meal(r.meal) = categorize_meal(q.meal)) => r = q

=============================================================================
